---- MODULE Spec2Model ----
(***************************************************************************)
(* untis-rs: the Client of src/src/client.rs, the school discovery facade  *)
(* of src/src/schools.rs, and the generic JSON-RPC request operation they  *)
(* both call (jsonrpc::Client, declared in src/src/lib.rs:38).             *)
(*                                                                         *)
(* Every async operation is split at its only suspension point, the        *)
(* transport call: a ...Call action builds the envelope, allocates the id  *)
(* and posts the request; a ...Return action takes the transport outcome   *)
(* and finishes the operation; a ...Cancel action drops the pending future.*)
(***************************************************************************)
EXTENDS Integers, Sequences, FiniteSets, TLC

\* ------------------------------------------------------------------ bounds
MaxClients == 2
MaxRequests == 3
MaxLen == 2

\* --------------------------------------------------------------- constants
FirstId == 1
TooManyResults == 0 - 6003
NotAuthenticated == 0 - 8520
NoRight == 0 - 8509
UnknownCode == 9999

Handles == 1 .. MaxClients
NoHandle == 0

\* ------------------------------------------------------------------ values
Unit == [tag |-> "unit"]

\* crate::Session as decoded from the authenticate result
Sessions == {[session_id |-> "sid-1", person_id |-> 1, person_type |-> "Student"],
             [session_id |-> "sid-2", person_id |-> 2, person_type |-> "Teacher"]}
NoSession == [session_id |-> "", person_id |-> 0, person_type |-> ""]

SchoolValues == {[school_id |-> 10, login_name |-> "alpha", server |-> "srv-a"],
                 [school_id |-> 20, login_name |-> "beta", server |-> "srv-b"]}

RECURSIVE SeqsUpTo(_, _)
SeqsUpTo(S, n) ==
    IF n = 0 THEN {<<>>}
    ELSE LET shorter == SeqsUpTo(S, n - 1)
         IN shorter \cup {Append(s, x) : s \in {t \in shorter : Len(t) = n - 1}, x \in S}

\* The sequences of a set that name no element twice.
Distinct(seqs) == {s \in seqs : \A i, j \in 1 .. Len(s) : s[i] = s[j] => i = j}

\* ------------------------------------------------------------------ errors
Error(kind, code, message) == [kind |-> kind, code |-> code, message |-> message]
TransportError == Error("Transport", 0, "")
ProtocolError == Error("Protocol", 0, "")
DecodeError == Error("Decode", 0, "")
NotFound == Error("NotFound", 0, "")
Panic == Error("Panic", 0, "")
Rpc(code, message) == Error("Rpc", code, message)
NoError == Error("", 0, "")

Ok(v) == [ok |-> TRUE, val |-> v, err |-> NoError]
Err(e) == [ok |-> FALSE, val |-> Unit, err |-> e]

KnownCodes == {TooManyResults, NotAuthenticated, NoRight}

ErrorKind(code) ==
    IF code = TooManyResults THEN "TooManyResults"
    ELSE IF code = NotAuthenticated THEN "NotAuthenticated"
    ELSE IF code = NoRight THEN "NoRight"
    ELSE "Other"

\* --------------------------------------------------- operations and shapes
\* The parameterless informational operations of Client.
InfoOps == {"last_update_time", "status_data", "current_schoolyear", "schoolyears",
            "holidays", "rooms", "classes", "subjects", "teachers", "students",
            "departments"}
TimetableOps == {"timetable_until", "timetable_current_week", "timetable_for_week",
                 "timetable_between"}
OwnTimetableOps == {"own_timetable_until", "own_timetable_current_week",
                    "own_timetable_for_week", "own_timetable_between"}
InformationalOps == InfoOps \cup TimetableOps \cup OwnTimetableOps
SchoolOps == {"search", "get_by_id", "get_by_name"}

\* The JSON-RPC method an operation passes to rpc_client.request.
Method(op) ==
    CASE op = "login" -> "authenticate"
      [] op = "last_update_time" -> "getLatestImportTime"
      [] op = "status_data" -> "getStatusData"
      [] op = "current_schoolyear" -> "getCurrentSchoolyear"
      [] op = "schoolyears" -> "getSchoolyears"
      [] op = "holidays" -> "getHolidays"
      [] op = "rooms" -> "getRooms"
      [] op = "classes" -> "getKlassen"
      [] op = "subjects" -> "getSubjects"
      [] op = "teachers" -> "getTeachers"
      [] op = "students" -> "getStudents"
      [] op = "departments" -> "getDepartments"
      [] op \in TimetableOps \cup OwnTimetableOps -> "getTimetable"
      [] op = "logout" -> "logout"
      [] op \in SchoolOps -> "searchSchool"

\* The type the operation asks rpc_client.request to decode the result into.
Shape(op) ==
    CASE op = "login" -> "Session"
      [] op = "last_update_time" -> "i64"
      [] op = "status_data" -> "StatusData"
      [] op = "current_schoolyear" -> "Schoolyear"
      [] op = "schoolyears" -> "Vec<Schoolyear>"
      [] op = "holidays" -> "Vec<Holiday>"
      [] op = "rooms" -> "Vec<Room>"
      [] op = "classes" -> "Vec<Class>"
      [] op = "subjects" -> "Vec<Subject>"
      [] op = "teachers" -> "Vec<Teacher>"
      [] op = "students" -> "Vec<Student>"
      [] op = "departments" -> "Vec<Department>"
      [] op \in TimetableOps \cup OwnTimetableOps -> "Vec<Lesson>"
      [] op = "logout" -> "()"
      [] op \in SchoolOps -> "SchoolSearchResult"

ListShapes == {"Vec<Schoolyear>", "Vec<Holiday>", "Vec<Room>", "Vec<Class>", "Vec<Subject>",
               "Vec<Teacher>", "Vec<Student>", "Vec<Department>", "Vec<Lesson>"}

\* ---------------------------------------------------------- wire payloads
Items == {[id |-> 1, name |-> "a"], [id |-> 2, name |-> "b"]}

\* The i64 of getLatestImportTime is wider than TLC's integers: in_range
\* says whether chrono can represent that many milliseconds.
Timestamps == {[ms |-> 1000, in_range |-> TRUE], [ms |-> 2147483647, in_range |-> FALSE]}

Payload(shape, val) == [shape |-> shape, val |-> val]

\* The well-shaped result payloads a server can send for a requested shape.
PayloadsOf(shape) ==
    CASE shape = "Session" -> {Payload(shape, s) : s \in Sessions}
      [] shape = "i64" -> {Payload(shape, t) : t \in Timestamps}
      [] shape \in {"StatusData", "Schoolyear"} -> {Payload(shape, [id |-> 1])}
      [] shape \in ListShapes ->
             {Payload(shape, [items |-> l]) : l \in Distinct(SeqsUpTo(Items, MaxLen))}
      [] shape = "()" -> {Payload(shape, Unit)}
      [] shape = "SchoolSearchResult" ->
             {Payload(shape, [schools |-> l]) : l \in SeqsUpTo(SchoolValues, MaxLen)}

\* One well-shaped result payload of the requested shape.
WellFormed(shape) == CHOOSE p \in PayloadsOf(shape) : TRUE

\* A result payload of another shape than the requested one.
WrongPayload(shape) ==
    IF shape = "()" THEN Payload("i64", [ms |-> 1000, in_range |-> TRUE])
    ELSE Payload("()", Unit)

ErrorObjects == {[code |-> TooManyResults, message |-> "too many results"],
                 [code |-> NotAuthenticated, message |-> "not authenticated"],
                 [code |-> UnknownCode, message |-> "custom failure"]}

\* Transport outcomes: a network failure, an unparseable body, or an envelope.
TransportFailure == [t |-> "fail"]
Malformed == [t |-> "garbage"]
ResultEnvelope(id, payload) == [t |-> "result", id |-> id, payload |-> payload]
ErrorEnvelope(id, e) == [t |-> "error", id |-> id, code |-> e.code, message |-> e.message]
NoResp == [t |-> "none"]

\* What the transport can hand back for a request whose result is to be
\* decoded into shape.
Responses(req, shape) ==
    {TransportFailure, Malformed}
    \cup {ErrorEnvelope(req.id, e) : e \in ErrorObjects}
    \cup {ErrorEnvelope(req.id + 1, e) : e \in {x \in ErrorObjects : x.code = UnknownCode}}
    \cup {ResultEnvelope(req.id, p) : p \in PayloadsOf(shape) \cup {WrongPayload(shape)}}
    \cup {ResultEnvelope(req.id + 1, WellFormed(shape))}

IsEnvelope(resp) == resp.t \in {"result", "error"}

\* ------------------------------------------------- jsonrpc::Client (generic)
NoReq == [id |-> 0, method |-> "", params |-> Unit]
NoRpc == [url |-> <<>>, next_id |-> 0]

\* jsonrpc::Client::new(url)
RpcNew(url) == [url |-> url, next_id |-> FirstId]

\* request(), up to the transport call: the envelope {id, method, params}
BuildRequest(c, method, params) == [id |-> c.next_id, method |-> method, params |-> params]

\* request(): the counter after the id was allocated
AdvanceId(c) == [c EXCEPT !.next_id = @ + 1]

\* Deserialization of a result payload into the requested shape: a JSON array
\* becomes the Vec of its items, an object the struct of its fields.
Decode(shape, payload) ==
    IF payload.shape # shape THEN Err(DecodeError)
    ELSE IF shape \in ListShapes THEN Ok(payload.val.items)
    ELSE Ok(payload.val)

\* request(), from the transport outcome on: correlate, map the error, decode.
RpcReceive(req, resp, shape) ==
    IF resp.t = "fail" THEN Err(TransportError)
    ELSE IF resp.t = "garbage" THEN Err(ProtocolError)
    ELSE IF resp.id # req.id THEN Err(ProtocolError)
    ELSE IF resp.t = "error" THEN Err(Rpc(resp.code, resp.message))
    ELSE Decode(shape, resp.payload)

\* ------------------------------------------------------- schools.rs helpers
\* Vec::swap_remove(index): the element at the 0-based index is taken out and
\* the last element is moved into its place.
swap_remove(list, index) ==
    [removed |-> list[index + 1],
     rest |-> [i \in 1 .. Len(list) - 1 |->
                  IF i = index + 1 THEN list[Len(list)] ELSE list[i]]]

\* get_first that pops the last school of the list.
get_first_takes_last(list) ==
    IF Len(list) = 0 THEN Err(NotFound) ELSE Ok(list[Len(list)])

\* get_first that takes a list of one school for an empty one.
get_first_off_by_one(list) ==
    IF Len(list) <= 1 THEN Err(NotFound) ELSE Ok(swap_remove(list, 0).removed)

get_first(list) ==
    IF Len(list) = 0 THEN Err(NotFound) ELSE Ok(swap_remove(list, 0).removed)

\* catch_too_many whose last arm answers an empty list as well.
catch_too_many_hides_failures(result) ==
    IF result.ok THEN Ok(result.val.schools)
    ELSE IF result.err.kind = "Rpc"
         THEN IF result.err.code = TooManyResults THEN Ok(<<>>) ELSE Err(result.err)
         ELSE Ok(<<>>)

\* catch_too_many that turns every server error into an empty list.
catch_too_many_swallows_all(result) ==
    IF result.ok THEN Ok(result.val.schools)
    ELSE IF result.err.kind = "Rpc" THEN Ok(<<>>)
    ELSE Err(result.err)

\* catch_too_many that compares against another code of the table.
catch_too_many_wrong_code(result) ==
    IF result.ok THEN Ok(result.val.schools)
    ELSE IF result.err.kind = "Rpc"
         THEN IF result.err.code = NotAuthenticated THEN Ok(<<>>) ELSE Err(result.err)
         ELSE Err(result.err)

\* catch_too_many that hands every error on.
catch_too_many_propagates(result) ==
    IF result.ok THEN Ok(result.val.schools) ELSE Err(result.err)

catch_too_many(result) ==
    IF result.ok THEN Ok(result.val.schools)
    ELSE IF result.err.kind = "Rpc"
         THEN IF result.err.code = TooManyResults THEN Ok(<<>>) ELSE Err(result.err)
         ELSE Err(result.err)

\* get_first(catch_too_many(result)?)
get_by(result) ==
    LET caught == catch_too_many(result)
    IN IF caught.ok THEN get_first(caught.val) ELSE Err(caught.err)

FindSchoolParams(op, arg) ==
    CASE op = "search" -> <<[tag |-> "Search", search |-> arg]>>
      [] op = "get_by_id" -> <<[tag |-> "ById", schoolid |-> arg]>>
      [] op = "get_by_name" -> <<[tag |-> "ByName", schoolname |-> arg]>>

SchoolArgs(op) == IF op = "get_by_id" THEN {10} ELSE {"alpha"}

\* ------------------------------------------------------- client.rs helpers
make_untis_url(server, school) ==
    <<"https://", server, "/WebUntis/jsonrpc.do?school=", school>>

AuthenticateParams(username, password) ==
    [client |-> "untis-rs", user |-> username, password |-> password]

Servers == {"server.webuntis.com"}
SchoolNames == {"SchoolName"}
Usernames == {"username"}
Passwords == {"password"}

\* Dates are day numbers; a week runs from Monday (day 0 mod 7) to Sunday.
Today == 9
EndDates == {12}
relative_week_begin(d) == d - (d % 7)
relative_week_end(d) == d - (d % 7) + 6

Elements == {[id |-> 1, ty |-> "Teacher"], [id |-> 2, ty |-> "Student"]}

TimetableParams(id, ty, start_date, end_date) ==
    [options |-> [element |-> [id |-> id, ty |-> ty],
                  start_date |-> start_date, end_date |-> end_date,
                  show_booking |-> TRUE, show_info |-> TRUE, show_subst_text |-> TRUE,
                  show_ls_text |-> TRUE, show_ls_number |-> TRUE,
                  show_student_group |-> TRUE,
                  class_fields |-> <<"id", "name">>, room_fields |-> <<"id", "name">>,
                  subject_fields |-> <<"id", "name">>, teacher_fields |-> <<"id", "name">>]]

\* The date range each timetable variant hands to timetable_between.
StartDate(op, date) ==
    CASE op \in {"timetable_until", "own_timetable_until"} -> Today
      [] op \in {"timetable_current_week", "own_timetable_current_week"} ->
             relative_week_begin(Today)
      [] op \in {"timetable_for_week", "own_timetable_for_week"} -> relative_week_begin(date)
      [] op \in {"timetable_between", "own_timetable_between"} -> Today

EndDate(op, date) ==
    CASE op \in {"timetable_until", "own_timetable_until"} -> date
      [] op \in {"timetable_current_week", "own_timetable_current_week"} ->
             relative_week_end(Today)
      [] op \in {"timetable_for_week", "own_timetable_for_week"} -> relative_week_end(date)
      [] op \in {"timetable_between", "own_timetable_between"} -> date

\* -------------------------------------------------------------------- state
VARIABLES
    phase,      \* per Client handle: where the handle is in its life
    rpc,        \* per handle: the rpc_client field (its url and id counter)
    session,    \* per handle: the session field
    inflight,   \* per handle: the pending request futures
    sent,       \* per handle: the ids posted on its rpc_client, in order
    disc,       \* the pending schools:: call and its own rpc client
    searches,   \* number of schools:: calls made so far
    ret         \* what the call that returned last gave its caller

vars == <<phase, rpc, session, inflight, sent, disc, searches, ret>>

Phases == {"Absent", "LoggingIn", "Failed", "Authenticated", "LoggingOut", "LoggedOut",
           "Dropped"}

\* ret.rpc is what rpc_client.request returned, ret.result what the operation
\* made of it for its caller.
NoRet == [h |-> NoHandle, op |-> "none", req |-> NoReq, resp |-> NoResp,
          rpc |-> Err(NoError), result |-> Err(NoError), posts |-> 0]
Returned(h, op, req, resp, r, result, posts) ==
    [h |-> h, op |-> op, req |-> req, resp |-> resp, rpc |-> r, result |-> result,
     posts |-> posts]

DiscIdle == [busy |-> FALSE, op |-> "none", rpc |-> NoRpc, req |-> NoReq, posts |-> 0]

Pending(op, req) == [op |-> op, req |-> req, posts |-> 1]

RECURSIVE SumSent(_)
SumSent(h) == IF h = 0 THEN 0 ELSE Len(sent[h]) + SumSent(h - 1)

\* Transport requests made so far, over all rpc clients.
Posted == SumSent(MaxClients) + searches

\* The caller awaits a call before it starts one on another rpc client, as the
\* examples do: the rpc clients share no state.
OthersIdle(h) == ~disc.busy /\ \A g \in Handles \ {h} : inflight[g] = {}

Init ==
    /\ phase = [h \in Handles |-> "Absent"]
    /\ rpc = [h \in Handles |-> NoRpc]
    /\ session = [h \in Handles |-> NoSession]
    /\ inflight = [h \in Handles |-> {}]
    /\ sent = [h \in Handles |-> <<>>]
    /\ disc = DiscIdle
    /\ searches = 0
    /\ ret = NoRet

\* ----------------------------------------------------------- Client::login
\* Lines 35-41 up to the await: a new rpc client, the authenticate request.
LoginCall(h, server, school, username, password) ==
    /\ phase[h] = "Absent"
    /\ \A g \in Handles : g < h => phase[g] # "Absent"
    /\ OthersIdle(h)
    /\ Posted < MaxRequests
    /\ LET c == RpcNew(make_untis_url(server, school))
           req == BuildRequest(c, "authenticate", AuthenticateParams(username, password))
       IN /\ rpc' = [rpc EXCEPT ![h] = AdvanceId(c)]
          /\ inflight' = [inflight EXCEPT ![h] = {Pending("login", req)}]
          /\ sent' = [sent EXCEPT ![h] = Append(@, req.id)]
    /\ phase' = [phase EXCEPT ![h] = "LoggingIn"]
    /\ ret' = NoRet
    /\ UNCHANGED <<session, disc, searches>>

\* login without the `?`: an error of the request is swallowed and a client
\* with a default session is returned.
login_outcome_unchecked(h, r) ==
    IF r.ok
    THEN [phase |-> "Authenticated", session |-> r.val, result |-> Ok([client |-> h])]
    ELSE [phase |-> "Authenticated", session |-> NoSession, result |-> Ok([client |-> h])]

\* login that fills the session field by field and forgets person_id.
login_outcome_forgets_person(h, r) ==
    IF r.ok
    THEN [phase |-> "Authenticated", session |-> [r.val EXCEPT !.person_id = 0],
          result |-> Ok([client |-> h])]
    ELSE [phase |-> "Failed", session |-> NoSession, result |-> Err(r.err)]

\* `let session: Session = ...await?; Ok(Self { rpc_client, session })`
login_outcome(h, r) ==
    IF r.ok
    THEN [phase |-> "Authenticated", session |-> r.val, result |-> Ok([client |-> h])]
    ELSE [phase |-> "Failed", session |-> NoSession, result |-> Err(r.err)]

LoginReturn(h, f, resp) ==
    /\ phase[h] = "LoggingIn"
    /\ f \in inflight[h]
    /\ resp \in Responses(f.req, Shape("login"))
    /\ LET r == RpcReceive(f.req, resp, Shape("login"))
           out == login_outcome(h, r)
       IN /\ phase' = [phase EXCEPT ![h] = out.phase]
          /\ session' = [session EXCEPT ![h] = out.session]
          /\ ret' = Returned(h, "login", f.req, resp, r, out.result, f.posts)
    /\ inflight' = [inflight EXCEPT ![h] = @ \ {f}]
    /\ UNCHANGED <<rpc, sent, disc, searches>>

\* --------------------------------------------------------- Client::session
SessionRead(h) ==
    /\ phase[h] = "Authenticated"
    /\ inflight[h] = {}
    /\ ret' = Returned(h, "session", NoReq, NoResp, Err(NoError), Ok(session[h]), 0)
    /\ UNCHANGED <<phase, rpc, session, inflight, sent, disc, searches>>

\* ------------------------------------------------ informational operations
\* logout(&mut self): the handle stays usable after a logout.
CanIssue_after_logout(h) ==
    phase[h] \in {"Authenticated", "LoggedOut"} /\ inflight[h] = {}

\* Operations taking &self: a call can start while another one is pending.
CanIssue_shared_borrow(h) == phase[h] = "Authenticated"

\* The operations callable on whatever login left behind, client or not.
CanIssue_without_client(h) == phase[h] \in {"Authenticated", "Failed"} /\ inflight[h] = {}

\* A method of Client can be called on a handle that login returned and that
\* is neither mutably borrowed by a pending call nor moved into logout.
CanIssue(h) == phase[h] = "Authenticated" /\ inflight[h] = {}

\* Every operation builds its own rpc client for the handle's url, as the
\* schools functions do.
ClientRpc_fresh(h) == RpcNew(rpc[h].url)

\* self.rpc_client, the client every operation of a handle sends through
ClientRpc(h) == rpc[h]

\* An operation that sends its request a second time.
Issue_twice(h, op, params) ==
    /\ CanIssue(h)
    /\ OthersIdle(h)
    /\ Posted + 1 < MaxRequests
    /\ LET first == BuildRequest(ClientRpc(h), Method(op), params)
           again == BuildRequest(AdvanceId(ClientRpc(h)), Method(op), params)
       IN /\ rpc' = [rpc EXCEPT ![h] = AdvanceId(AdvanceId(ClientRpc(h)))]
          /\ inflight' = [inflight EXCEPT ![h] = @ \cup {[Pending(op, again) EXCEPT !.posts = 2]}]
          /\ sent' = [sent EXCEPT ![h] = Append(Append(@, first.id), again.id)]
    /\ ret' = NoRet
    /\ UNCHANGED <<session, disc, searches>>

\* self.rpc_client.request(method, params), up to the await
Issue(h, op, params) ==
    /\ CanIssue(h)
    /\ OthersIdle(h)
    /\ Posted < MaxRequests
    /\ LET req == BuildRequest(ClientRpc(h), Method(op), params)
       IN /\ rpc' = [rpc EXCEPT ![h] = AdvanceId(ClientRpc(h))]
          /\ inflight' = [inflight EXCEPT ![h] = @ \cup {Pending(op, req)}]
          /\ sent' = [sent EXCEPT ![h] = Append(@, req.id)]
    /\ ret' = NoRet
    /\ UNCHANGED <<session, disc, searches>>

InfoCall(h, op) ==
    /\ op \in InfoOps
    /\ Issue(h, op, Unit)
    /\ UNCHANGED phase

TimetableCall(h, op, el, date) ==
    /\ op \in TimetableOps
    /\ Issue(h, op, TimetableParams(el.id, el.ty, StartDate(op, date), EndDate(op, date)))
    /\ UNCHANGED phase

\* An own-timetable operation that asks for the caller as a student, whatever
\* person_type the session holds.
OwnTimetableCall_as_student(h, op, date) ==
    /\ op \in OwnTimetableOps
    /\ Issue(h, op, TimetableParams(session[h].person_id, "Student",
                                   StartDate(op, date), EndDate(op, date)))
    /\ UNCHANGED phase

OwnTimetableCall(h, op, date) ==
    /\ op \in OwnTimetableOps
    /\ Issue(h, op, TimetableParams(session[h].person_id, session[h].person_type,
                                   StartDate(op, date), EndDate(op, date)))
    /\ UNCHANGED phase

\* A list operation that hands its items on in reverse order.
finish_reverses_lists(op, r) ==
    IF op = "last_update_time" /\ r.ok
    THEN IF r.val.in_range THEN Ok([utc_ms |-> r.val.ms]) ELSE Err(Panic)
    ELSE IF r.ok /\ Shape(op) \in ListShapes
         THEN Ok([i \in 1 .. Len(r.val) |-> r.val[Len(r.val) + 1 - i]])
         ELSE r

\* What an operation makes of the value request() returned.
finish(op, r) ==
    IF op = "last_update_time" /\ r.ok
    THEN IF r.val.in_range THEN Ok([utc_ms |-> r.val.ms]) ELSE Err(Panic)
    ELSE r

\* An operation that drops the session once the server says it has expired.
session_after_clears_on_expiry(h, op, r) ==
    IF ~r.ok /\ r.err.kind = "Rpc" /\ ErrorKind(r.err.code) = "NotAuthenticated"
    THEN NoSession
    ELSE session[h]

\* An operation that forgets the session when the server reports an error.
session_after_clears_on_error(h, op, r) ==
    IF ~r.ok /\ r.err.kind = "Rpc" THEN NoSession ELSE session[h]

\* The session field once an informational operation has returned.
session_after(h, op, r) == session[h]

InfoReturn(h, f, resp) ==
    /\ phase[h] = "Authenticated"
    /\ f \in inflight[h]
    /\ resp \in Responses(f.req, Shape(f.op))
    /\ LET r == RpcReceive(f.req, resp, Shape(f.op))
       IN /\ session' = [session EXCEPT ![h] = session_after(h, f.op, r)]
          /\ ret' = Returned(h, f.op, f.req, resp, r, finish(f.op, r), f.posts)
    /\ inflight' = [inflight EXCEPT ![h] = @ \ {f}]
    /\ UNCHANGED <<phase, rpc, sent, disc, searches>>

\* ---------------------------------------------------------- Client::logout
\* logout(mut self): the handle is moved into the call.
LogoutCall(h) ==
    /\ Issue(h, "logout", Unit)
    /\ phase' = [phase EXCEPT ![h] = "LoggingOut"]

\* A logout that counts as done whatever the request returned.
logout_outcome_ignores_error(r) == "LoggedOut"

\* Where the moved handle ends once logout has returned.
logout_outcome(r) == IF r.ok THEN "LoggedOut" ELSE "Dropped"

LogoutReturn(h, f, resp) ==
    /\ phase[h] = "LoggingOut"
    /\ f \in inflight[h]
    /\ resp \in Responses(f.req, Shape("logout"))
    /\ LET r == RpcReceive(f.req, resp, Shape("logout"))
       IN /\ phase' = [phase EXCEPT ![h] = logout_outcome(r)]
          /\ ret' = Returned(h, "logout", f.req, resp, r, r, f.posts)
    /\ inflight' = [inflight EXCEPT ![h] = @ \ {f}]
    /\ UNCHANGED <<rpc, session, sent, disc, searches>>

\* ------------------------------------------------------------ cancellation
\* A cancellation that hands the id of the dropped request back to the counter.
Cancel_rolls_back(h) ==
    /\ inflight[h] # {}
    /\ inflight' = [inflight EXCEPT ![h] = {}]
    /\ phase' = [phase EXCEPT ![h] =
                    CASE @ = "LoggingIn" -> "Failed"
                      [] @ = "LoggingOut" -> "Dropped"
                      [] OTHER -> @]
    /\ rpc' = [rpc EXCEPT ![h].next_id = @ - 1]
    /\ ret' = NoRet
    /\ UNCHANGED <<session, sent, disc, searches>>

\* The caller drops a pending future at its await.
Cancel(h) ==
    /\ inflight[h] # {}
    /\ inflight' = [inflight EXCEPT ![h] = {}]
    /\ phase' = [phase EXCEPT ![h] =
                    CASE @ = "LoggingIn" -> "Failed"
                      [] @ = "LoggingOut" -> "Dropped"
                      [] OTHER -> @]
    /\ ret' = NoRet
    /\ UNCHANGED <<rpc, session, sent, disc, searches>>

\* ---------------------------------------------------------------- schools
\* get_client that hands out one client whose counter runs on over the searches.
get_client_shared ==
    [url |-> <<"https://mobile.webuntis.com/ms/schoolquery2">>,
     next_id |-> FirstId + searches]

get_client == RpcNew(<<"https://mobile.webuntis.com/ms/schoolquery2">>)

SchoolsCall(op, arg) ==
    /\ op \in SchoolOps
    /\ ~disc.busy
    /\ OthersIdle(NoHandle)
    /\ Posted < MaxRequests
    /\ LET c == get_client
           req == BuildRequest(c, "searchSchool", FindSchoolParams(op, arg))
       IN disc' = [busy |-> TRUE, op |-> op, rpc |-> AdvanceId(c), req |-> req, posts |-> 1]
    /\ searches' = searches + 1
    /\ ret' = NoRet
    /\ UNCHANGED <<phase, rpc, session, inflight, sent>>

schools_outcome(op, r) == IF op = "search" THEN catch_too_many(r) ELSE get_by(r)

SchoolsReturn(resp) ==
    /\ disc.busy
    /\ resp \in Responses(disc.req, Shape(disc.op))
    /\ LET r == RpcReceive(disc.req, resp, Shape(disc.op))
       IN ret' = Returned(NoHandle, disc.op, disc.req, resp, r,
                          schools_outcome(disc.op, r), disc.posts)
    /\ disc' = DiscIdle
    /\ UNCHANGED <<phase, rpc, session, inflight, sent, searches>>

SchoolsCancel ==
    /\ disc.busy
    /\ disc' = DiscIdle
    /\ ret' = NoRet
    /\ UNCHANGED <<phase, rpc, session, inflight, sent, searches>>

\* ------------------------------------------------------------ specification
Next ==
    \/ \E h \in Handles, sv \in Servers, sc \in SchoolNames, u \in Usernames,
          pw \in Passwords : LoginCall(h, sv, sc, u, pw)
    \/ \E h \in Handles : \E f \in inflight[h] :
          \E resp \in Responses(f.req, Shape(f.op)) : LoginReturn(h, f, resp)
    \/ \E h \in Handles : SessionRead(h)
    \/ \E h \in Handles, op \in InfoOps : InfoCall(h, op)
    \/ \E h \in Handles, op \in TimetableOps, el \in Elements, d \in EndDates :
          TimetableCall(h, op, el, d)
    \/ \E h \in Handles, op \in OwnTimetableOps, d \in EndDates : OwnTimetableCall(h, op, d)
    \/ \E h \in Handles : \E f \in inflight[h] :
          \E resp \in Responses(f.req, Shape(f.op)) : InfoReturn(h, f, resp)
    \/ \E h \in Handles : LogoutCall(h)
    \/ \E h \in Handles : \E f \in inflight[h] :
          \E resp \in Responses(f.req, Shape(f.op)) : LogoutReturn(h, f, resp)
    \/ \E h \in Handles : Cancel(h)
    \/ \E op \in SchoolOps : \E arg \in SchoolArgs(op) : SchoolsCall(op, arg)
    \/ \E resp \in Responses(disc.req, Shape("search")) : SchoolsReturn(resp)
    \/ SchoolsCancel

Spec == Init /\ [][Next]_vars

\* ================================================================== claims
Answered == ret.op \notin {"none", "session"}

\* C1: whenever a call returns whose response envelope carries an id other
\* than the id of its request, the call returns ProtocolError and no payload,
\* also when the envelope holds a well-formed result.
C1_IdMismatchIsProtocolError ==
    (Answered /\ IsEnvelope(ret.resp) /\ ret.resp.id # ret.req.id)
        => (~ret.result.ok /\ ret.result.err = ProtocolError)

C1_Witness ==
    /\ Answered
    /\ ret.resp.t = "result"
    /\ ret.resp.id # ret.req.id
    /\ ret.resp.payload.shape = Shape(ret.op)
    /\ ret.result = Err(ProtocolError)

\* C2: when login's authenticate request succeeds, the returned client is
\* Authenticated and its session is exactly the value the request decoded from
\* that response; session() returns the session of the client.
C2_LoginPopulatesSession ==
    /\ (ret.op = "login" /\ ret.rpc.ok) =>
          /\ ret.result = Ok([client |-> ret.h])
          /\ phase[ret.h] = "Authenticated"
          /\ ret.resp.t = "result"
          /\ session[ret.h] = ret.rpc.val
          /\ session[ret.h] \in Sessions
    /\ ret.op = "session" =>
          /\ ret.result = Ok(session[ret.h])
          /\ session[ret.h] \in Sessions

C2_Witness ==
    /\ ret.op = "session"
    /\ ret.result.ok
    /\ ret.result.val.person_id = 2
    /\ ret.result.val.person_type = "Teacher"

\* C3: an informational request is pending only on a handle that is
\* Authenticated; a handle becomes Authenticated only by a login whose
\* authenticate request returned Ok; a login whose request failed returns the
\* error, leaves no client, and nothing but its authenticate request was ever
\* sent.
C3_InformationalNeedsLogin ==
    [][\A h \in Handles :
          /\ \A f \in inflight'[h] :
                f.op \in InformationalOps => phase'[h] = "Authenticated"
          /\ (phase'[h] = "Authenticated" /\ phase[h] # "Authenticated") =>
                (phase[h] = "LoggingIn" /\ ret'.op = "login" /\ ret'.h = h /\ ret'.rpc.ok)
          /\ (ret'.op = "login" /\ ret'.h = h /\ ~ret'.rpc.ok) =>
                (~ret'.result.ok /\ ret'.result.err = ret'.rpc.err /\ phase'[h] = "Failed")
          /\ phase'[h] \in {"Absent", "LoggingIn", "Failed"} =>
                (Len(sent'[h]) <= 1 /\ \A f \in inflight'[h] : f.op = "login")]_vars

C3_Witness ==
    \E h, g \in Handles :
        /\ phase[h] = "Failed"
        /\ phase[g] = "Authenticated"
        /\ \E f \in inflight[g] : f.op \in InformationalOps

RpcFailedWith(code) == ~ret.rpc.ok /\ ret.rpc.err.kind = "Rpc" /\ ret.rpc.err.code = code

\* C4: a matching response whose error code is not in the known table makes
\* the call fail with a server error carrying exactly that code and message,
\* for every operation, the school search and lookups included (no empty
\* list, no NotFound).
C4_UnknownCodeIsPreserved ==
    (Answered /\ ret.resp.t = "error" /\ ret.resp.id = ret.req.id
       /\ ret.resp.code \notin KnownCodes)
        => ret.result = Err(Rpc(ret.resp.code, ret.resp.message))

C4_Witness ==
    /\ ret.op = "search"
    /\ ret.resp.t = "error"
    /\ ret.resp.id = ret.req.id
    /\ ret.resp.code = 9999
    /\ ret.resp.message = "custom failure"
    /\ ret.result = Err(Rpc(9999, "custom failure"))

\* C5: when the request of schools::search fails with a server error whose
\* code is TooManyResults, search returns Ok with an empty list.
C5_SearchTooManyIsEmpty ==
    (ret.op = "search" /\ RpcFailedWith(TooManyResults)) => ret.result = Ok(<<>>)

C5_Witness ==
    /\ ret.op = "search"
    /\ RpcFailedWith(TooManyResults)
    /\ ret.result.ok
    /\ Len(ret.result.val) = 0

\* C6: when the request of get_by_id or get_by_name fails with TooManyResults,
\* the lookup returns NotFound, as it does for a successful response that
\* holds no school; it returns neither the server error nor a school.
C6_LookupTooManyIsNotFound ==
    (ret.op \in {"get_by_id", "get_by_name"}
       /\ (RpcFailedWith(TooManyResults) \/ (ret.rpc.ok /\ Len(ret.rpc.val.schools) = 0)))
        => ret.result = Err(NotFound)

C6_Witness ==
    /\ ret.op = "get_by_name"
    /\ RpcFailedWith(TooManyResults)
    /\ ret.result = Err(NotFound)

\* C7: a lookup whose response holds exactly one school returns that school;
\* one whose response holds no school returns NotFound.
C7_LookupOneOrNone ==
    (ret.op \in {"get_by_id", "get_by_name"} /\ ret.rpc.ok) =>
        /\ Len(ret.rpc.val.schools) = 1 => ret.result = Ok(ret.rpc.val.schools[1])
        /\ Len(ret.rpc.val.schools) = 0 => ret.result = Err(NotFound)

C7_Witness ==
    /\ ret.op = "get_by_id"
    /\ ret.rpc.ok
    /\ Len(ret.rpc.val.schools) = 1
    /\ ret.result.ok
    /\ ret.result.val.login_name = "beta"

\* C8: from the moment login returned the client, no step changes its session:
\* not an informational operation that succeeds, fails or is dropped, not a
\* session read, not a logout, not a call on another client or a school search.
C8_SessionFrame ==
    [][\A h \in Handles :
          phase[h] \in {"Authenticated", "LoggingOut"} => session'[h] = session[h]]_vars

C8_Witness ==
    \E h \in Handles :
        /\ phase[h] = "Authenticated"
        /\ Len(sent[h]) = 3
        /\ ret.h = h
        /\ ret.op \in InformationalOps
        /\ ~ret.result.ok
        /\ ret.result.err.kind = "Rpc"
        /\ session[h] \in Sessions

\* C9: the ids posted on one client instance are strictly increasing in the
\* order they were sent, whatever became of the earlier requests.
C9_IdsStrictlyIncrease ==
    \A h \in Handles :
        \A i, j \in 1 .. Len(sent[h]) : i < j => sent[h][i] < sent[h][j]

C9_Witness ==
    \E h \in Handles :
        /\ Len(sent[h]) = 3
        /\ ret.h = h
        /\ ~ret.result.ok
        /\ ret.req.id = sent[h][3]
        /\ sent[h][1] < sent[h][2]
        /\ sent[h][2] < sent[h][3]

\* C10: once logout has returned success the handle stays LoggedOut: no request
\* is sent on it, none is pending on it, and no call returns on it any more.
C10_LoggedOutIsTerminal ==
    [][\A h \in Handles :
          phase[h] = "LoggedOut" =>
              /\ phase'[h] = "LoggedOut"
              /\ inflight'[h] = {}
              /\ sent'[h] = sent[h]
              /\ rpc'[h] = rpc[h]
              /\ (ret'.h = h => ret' = ret)]_vars

C10_Witness ==
    \E h, g \in Handles :
        /\ phase[h] = "LoggedOut"
        /\ inflight[h] = {}
        /\ phase[g] = "LoggingIn"

\* C11 as claimed: a logout whose request failed leaves the handle
\* Authenticated, able to issue operations and a further logout.
C11_FailedLogoutKeepsHandle ==
    (ret.op = "logout" /\ ~ret.rpc.ok) => phase[ret.h] = "Authenticated"

\* C11: a handle becomes LoggedOut only when a logout's request returned Ok;
\* a logout whose request failed returns that error and has consumed the
\* handle all the same: nothing is sent, pending or returned on it afterwards.
C11_LogoutConsumesHandle ==
    [][\A h \in Handles :
          /\ (phase'[h] = "LoggedOut" /\ phase[h] # "LoggedOut") =>
                (phase[h] = "LoggingOut" /\ ret'.op = "logout" /\ ret'.h = h /\ ret'.rpc.ok)
          /\ (phase[h] = "LoggingOut" /\ ret'.op = "logout" /\ ret'.h = h /\ ~ret'.rpc.ok) =>
                (phase'[h] = "Dropped" /\ ret'.result = ret'.rpc)
          /\ phase[h] = "Dropped" =>
                /\ phase'[h] = "Dropped"
                /\ inflight'[h] = {}
                /\ sent'[h] = sent[h]
                /\ (ret'.h = h => ret' = ret)]_vars

C11_Witness ==
    /\ ret.op = "logout"
    /\ ~ret.rpc.ok
    /\ ret.rpc.err = TransportError
    /\ ret.result = ret.rpc
    /\ phase[ret.h] = "Dropped"

\* C12: when the request of an informational operation returns the server's
\* not-authenticated error, the operation returns that error; the step sends
\* nothing (no authenticate request), leaves the session and the id counter
\* as they were, and leaves the handle Authenticated with nothing pending.
C12_ExpiryIsSurfaced ==
    [][\A h \in Handles :
          (/\ ret'.h = h
           /\ ret'.op \in InformationalOps
           /\ inflight[h] # {}
           /\ ~ret'.rpc.ok
           /\ ret'.rpc.err.kind = "Rpc"
           /\ ErrorKind(ret'.rpc.err.code) = "NotAuthenticated")
          => /\ ret'.result = ret'.rpc
             /\ ret'.posts = 1
             /\ session' = session
             /\ sent' = sent
             /\ rpc' = rpc
             /\ phase'[h] = "Authenticated"
             /\ inflight'[h] = {}
             /\ \A g \in Handles : \A f \in inflight'[g] : f.req.method # "authenticate"]_vars

C12_Witness ==
    /\ ret.op = "status_data"
    /\ ret.resp.t = "error"
    /\ ret.resp.code = NotAuthenticated
    /\ ret.result = Err(Rpc(NotAuthenticated, "not authenticated"))
    /\ CanIssue(ret.h)
    /\ session[ret.h] \in Sessions

\* C13: a step that starts an operation posts exactly one request on the rpc
\* client it uses, and no other step posts any; every call that returns has
\* made one transport request; a transport failure ends the call with the
\* transport error and leaves nothing pending (no retry).
C13_OnePostPerCall ==
    [][/\ \A h \in Handles :
             /\ Cardinality(inflight'[h] \ inflight[h]) <= 1
             /\ Len(sent'[h]) =
                    Len(sent[h]) + (IF inflight'[h] \ inflight[h] # {} THEN 1 ELSE 0)
             /\ \A f \in inflight'[h] : f.posts = 1
       /\ searches' = searches + (IF disc'.busy /\ ~disc.busy THEN 1 ELSE 0)
       /\ disc'.busy => disc'.posts = 1
       /\ ret'.op \notin {"none", "session"} => ret'.posts = 1
       /\ ret'.resp.t = "fail" =>
             /\ ret'.result = Err(TransportError)
             /\ sent' = sent
             /\ searches' = searches
             /\ ~disc'.busy
             /\ \A h \in Handles : inflight'[h] = {}]_vars

C13_Witness ==
    /\ ret.op = "own_timetable_current_week"
    /\ ret.resp.t = "fail"
    /\ ret.result = Err(TransportError)
    /\ ret.posts = 1
    /\ Len(sent[ret.h]) = 2
    /\ inflight[ret.h] = {}

\* C14: at most one request is pending on a handle, and it is the request
\* sent last on that handle; a call that returns on a handle answers the
\* request sent last on it.
C14_SingleFlight ==
    \A h \in Handles :
        /\ Cardinality(inflight[h]) <= 1
        /\ \A f \in inflight[h] : f.req.id = sent[h][Len(sent[h])]
        /\ (ret.h = h /\ Answered) => ret.req.id = sent[h][Len(sent[h])]

C14_Witness ==
    \E h \in Handles :
        /\ Len(sent[h]) = 3
        /\ Cardinality(inflight[h]) = 1
        /\ \E f \in inflight[h] : f.op \in InformationalOps /\ f.req.id = sent[h][3]

\* C15: a step that drops a pending request leaves the id counter, the ids
\* sent and every session as they were and an Authenticated handle
\* Authenticated with nothing pending; the counter of a client is always
\* above every id sent on it, so the next request gets a larger id than the
\* dropped one.
C15_CancelKeepsClientConsistent ==
    [][\A h \in Handles :
          /\ (inflight[h] # {} /\ inflight'[h] = {} /\ ret' = NoRet) =>
                /\ rpc'[h] = rpc[h]
                /\ sent' = sent
                /\ session' = session
                /\ phase[h] = "Authenticated" => phase'[h] = "Authenticated"
          /\ \A i \in 1 .. Len(sent'[h]) : sent'[h][i] < rpc'[h].next_id
          /\ \A f \in inflight'[h] \ inflight[h] :
                \A i \in 1 .. Len(sent[h]) : sent[h][i] < f.req.id]_vars

\* Nothing is pending anywhere and nothing has returned since the last call
\* started: the request sent last on h was dropped.
C15_Witness ==
    \E h \in Handles :
        /\ ret = NoRet
        /\ ~disc.busy
        /\ searches = 0
        /\ \A g \in Handles : inflight[g] = {} /\ (g # h => phase[g] = "Absent")
        /\ CanIssue(h)
        /\ Len(sent[h]) = 2
        /\ rpc[h].next_id = sent[h][2] + 1
        /\ session[h] \in Sessions

C17_OnlyTooManyIsSuppressed ==
    (ret.op \in SchoolOps /\ ~ret.rpc.ok /\ ~RpcFailedWith(TooManyResults))
        => (ret.result = ret.rpc /\ ret.result.err # NotFound)

C17_Witness ==
    /\ ret.op = "get_by_id"
    /\ ret.resp.t = "result"
    /\ ret.resp.id = ret.req.id
    /\ ret.rpc = Err(DecodeError)
    /\ ret.result = Err(DecodeError)

\* C18: a lookup whose response holds two or more schools returns the school
\* at the first position of the list.
C18_LookupTakesFirst ==
    (ret.op \in {"get_by_id", "get_by_name"} /\ ret.rpc.ok
       /\ Len(ret.rpc.val.schools) >= 2)
        => ret.result = Ok(ret.rpc.val.schools[1])

C18_Witness ==
    /\ ret.op = "get_by_name"
    /\ ret.rpc.ok
    /\ Len(ret.rpc.val.schools) = 2
    /\ ret.rpc.val.schools[1] # ret.rpc.val.schools[2]
    /\ ret.result = Ok(ret.rpc.val.schools[1])

\* C19: every own-timetable operation sends a getTimetable request whose
\* element id and type are the person_id and person_type of the session the
\* handle got at login, both while the request is pending and when it returns.
OwnElement(h) == [id |-> session[h].person_id, ty |-> session[h].person_type]

C19_OwnTimetableUsesSession ==
    /\ \A h \in Handles : \A f \in inflight[h] :
          f.op \in OwnTimetableOps =>
              /\ session[h] \in Sessions
              /\ f.req.method = "getTimetable"
              /\ f.req.params.options.element = OwnElement(h)
    /\ ret.op \in OwnTimetableOps =>
          /\ ret.req.method = "getTimetable"
          /\ ret.req.params.options.element = OwnElement(ret.h)

C19_Witness ==
    \E h \in Handles : \E f \in inflight[h] :
        /\ f.op = "own_timetable_for_week"
        /\ session[h].person_id = 2
        /\ session[h].person_type = "Teacher"
        /\ f.req.params.options.element = [id |-> 2, ty |-> "Teacher"]

\* C20: a school search or lookup starts whatever state the handles are in,
\* always sends the first id of a fresh rpc client to the discovery endpoint,
\* carries nothing of a session, and no step of it changes the phase, the rpc
\* client, the session or the requests of any handle.
DiscoveryUrl == <<"https://mobile.webuntis.com/ms/schoolquery2">>

SchoolsStep == disc' # disc \/ searches' # searches

C20_SearchIsIsolated ==
    [][/\ SchoolsStep => UNCHANGED <<phase, rpc, session, inflight, sent>>
       /\ disc'.busy =>
             /\ disc'.req.id = FirstId
             /\ disc'.rpc.url = DiscoveryUrl
             /\ disc'.req.method = "searchSchool"
             /\ \E op \in SchoolOps : \E arg \in SchoolArgs(op) :
                   disc'.req.params = FindSchoolParams(op, arg)
       /\ ret'.op \in SchoolOps => (ret'.req.id = FirstId /\ ret'.h = NoHandle)]_vars

C20_Witness ==
    /\ searches = 2
    /\ disc.busy
    /\ disc.req.id = FirstId
    /\ \E h \in Handles :
          /\ phase[h] = "Authenticated"
          /\ rpc[h].next_id = FirstId + 1
          /\ session[h] \in Sessions
    /\ \E h \in Handles : phase[h] = "Absent"

====
